---- MODULE Spec2Model ----
(***************************************************************************)
(* Surface extraction of hy3dgen/shapegen/models/autoencoders/             *)
(* surface_extractors.py: SurfaceExtractor (_compute_box_stat, __call__),  *)
(* MCSurfaceExtractor.run and DMCSurfaceExtractor.run with its lazily      *)
(* probed diso backend and permanent fallback to marching cubes.           *)
(*                                                                         *)
(* Numbers: a float is modelled by the exact rational it denotes, written  *)
(* <<num, den>> with den > 0; bounds and iso levels are integers-valued.   *)
(* Grid-index coordinates produced by marching cubes are multiples of 1/2  *)
(* (a surface crossing sits on a grid point or half way along an edge).    *)
(* Floating-point rounding is outside the model.                           *)
(***************************************************************************)
EXTENDS Integers, Sequences, FiniteSets, TLC

\* ------------------------------------------------------------------ bounds
MaxRes == 2         \* octree_resolution ranges over 1..MaxRes
MaxCoord == 1       \* bounds entries range over -1..MaxCoord
MaxBatch == 2       \* grid_logits.shape[0] ranges over 0..MaxBatch

VARIABLES
    dmc,                  \* hasattr(self, 'dmc'): the backend handle is stored
    _use_fallback,        \* self._use_fallback
    _fallback_extractor,  \* hasattr(self, '_fallback_extractor')
    probes,               \* how often lines 93-94 were executed (saturating)
    writes,               \* how often the memoized decision was written
    args,                 \* SpecRun: the arguments of the stand-alone call
    last,                 \* the most recent call of _compute_box_stat / run
    pc,                   \* __call__: "idle", "loop", "done" or "raised"
    extractor,            \* __call__: the variant of self, "mc" or "dmc"
    grid_logits,          \* __call__: the batch
    kw,                   \* __call__: **kwargs
    i,                    \* __call__: the loop index
    outputs,              \* __call__: the list being built
    rets                  \* __call__: what self.run did for each item so far

vars == <<dmc, _use_fallback, _fallback_extractor, probes, writes, args, last,
          pc, extractor, grid_logits, kw, i, outputs, rets>>

\* ------------------------------------------------------- python exceptions
\* The builtin classes the code names or can meet, with their base class.
ExcBase ==
    [BaseException |-> "", Exception |-> "BaseException",
     ImportError |-> "Exception", ModuleNotFoundError |-> "ImportError",
     RuntimeError |-> "Exception", ValueError |-> "Exception",
     TypeError |-> "Exception", AttributeError |-> "Exception",
     OSError |-> "Exception", LookupError |-> "Exception",
     KeyError |-> "LookupError", IndexError |-> "LookupError"]

RECURSIVE IsInstance(_, _)
IsInstance(exc, cls) ==
    IF exc = "" THEN FALSE
    ELSE exc = cls \/ IsInstance(ExcBase[exc], cls)

\* What `from diso import DiffDMC; DiffDMC(dtype=...).to(device)` can do.
ProbeOutcomes ==
    {"ok", "ImportError", "ModuleNotFoundError", "RuntimeError", "ValueError",
     "TypeError", "AttributeError", "OSError", "KeyError"}

\* ------------------------------------------------------------------ values
Rat(n, d) == <<n, d>>
RDiv(q, k) == <<q[1], q[2] * k>>          \* q / k, k a positive integer
RMul(q, k) == <<q[1] * k, q[2]>>          \* q * k
RAdd(q, k) == <<q[1] + k * q[2], q[2]>>   \* q + k

NoArg == [t |-> "missing", v |-> <<>>]
FloatArg(x) == [t |-> "float", v |-> <<x>>]
IntArg(x) == [t |-> "int", v |-> <<x>>]
SeqArg(s) == [t |-> "seq", v |-> s]

NullField == [n |-> 0, kind |-> "none", h |-> 0]
NullKw == [mc_level |-> NoArg, bounds |-> NoArg, octree_resolution |-> 0]
NullRet == [ok |-> FALSE, exc |-> "", vertices |-> <<>>, faces |-> <<>>,
            dtype |-> "", contiguous |-> FALSE]
NullStat == [ok |-> FALSE, exc |-> "", grid_size |-> <<>>, bbox_min |-> <<>>,
             bbox_size |-> <<>>]
NoCall == [op |-> "none", grid_logit |-> NullField, kwargs |-> NullKw,
           diso |-> "", probed |-> FALSE, path |-> "none", raw |-> <<>>,
           ret |-> NullRet, stat |-> NullStat]

Raise(e) == [NullRet EXCEPT !.exc = e]
Return(v, f, dt, c) ==
    [ok |-> TRUE, exc |-> "", vertices |-> v, faces |-> f, dtype |-> dt,
     contiguous |-> c]

\* ---------------------------------------------------------------- inputs
CoordVals == -1 .. MaxCoord
Resolutions == 1 .. MaxRes

\* A scalar field on an n x n x n grid: all zero ("flat"), or a field with
\* values in [-1, 1] whose zero crossing is placed by h ("sphere").
Fields(n) ==
    {[n |-> n, kind |-> "flat", h |-> 0]}
    \cup {[n |-> n, kind |-> "sphere", h |-> h] : h \in 0 .. 2 * (n - 1)}

BoundsArgs ==
    {NoArg} \cup {FloatArg(b) : b \in CoordVals}
    \cup {IntArg(b) : b \in 1 .. MaxCoord}
    \cup {SeqArg(<<a, b, a, c, c, c>>) : a \in CoordVals, b \in CoordVals,
                                         c \in CoordVals}
LevelArgs == {NoArg, FloatArg(0), FloatArg(2)}

Kwargs(r) ==
    {[mc_level |-> l, bounds |-> b, octree_resolution |-> r] :
        l \in LevelArgs, b \in BoundsArgs}

\* ------------------------------------------------------ _compute_box_stat
\* Variant: the grid has octree_resolution lines per axis, not one more.
BoxStatCells(bounds, octree_resolution) ==
    LET b == IF bounds.t = "float"
             THEN LET x == bounds.v[1] IN <<-x, -x, -x, x, x, x>>
             ELSE bounds.v
    IN  IF bounds.t \notin {"float", "seq"}
        THEN [NullStat EXCEPT !.exc = "TypeError"]
        ELSE [ok |-> TRUE, exc |-> "",
              grid_size |-> <<octree_resolution, octree_resolution,
                              octree_resolution>>,
              bbox_min |-> SubSeq(b, 1, 3),
              bbox_size |-> [a \in 1 .. 3 |-> b[a + 3] - b[a]]]

_compute_box_stat(bounds, octree_resolution) ==
    LET b == IF bounds.t = "float"
             THEN LET x == bounds.v[1] IN <<-x, -x, -x, x, x, x>>
             ELSE bounds.v
    IN  IF bounds.t \notin {"float", "seq"}
        THEN [NullStat EXCEPT !.exc = "TypeError"]
        ELSE LET bbox_min == SubSeq(b, 1, 3)
                 bbox_max == SubSeq(b, 4, 6)
             IN  [ok |-> TRUE, exc |-> "",
                  grid_size |-> <<octree_resolution + 1, octree_resolution + 1,
                                  octree_resolution + 1>>,
                  bbox_min |-> bbox_min,
                  bbox_size |-> [a \in 1 .. 3 |-> bbox_max[a] - bbox_min[a]]]

\* ------------------------------------------------ skimage marching_cubes
\* measure.marching_cubes(volume, level, method="lewiner"): raises ValueError
\* when level is outside the data range and RuntimeError when no surface is
\* found; otherwise vertices in grid-index space [0, n-1] and faces.
marching_cubes(volume, level) ==
    LET lo == IF volume.kind = "sphere" THEN -1 ELSE 0
        hi == IF volume.kind = "sphere" THEN 1 ELSE 0
        M == 2 * (volume.n - 1)
        h == volume.h
    IN  IF level < lo \/ level > hi THEN Raise("ValueError")
        ELSE IF volume.kind # "sphere" THEN Raise("RuntimeError")
        ELSE Return(<< <<Rat(h, 2), Rat(h, 2), Rat(h, 2)>>,
                       <<Rat(0, 2), Rat(h, 2), Rat(M, 2)>>,
                       <<Rat(M - h, 2), Rat(0, 2), Rat(h, 2)>> >>,
                    << <<0, 1, 2>> >>, "float32", TRUE)

\* vertices / grid_size * bbox_size + bbox_min, elementwise per axis
MapVertex(v, grid_size, bbox_size, bbox_min) ==
    [a \in 1 .. 3 |->
        RAdd(RMul(RDiv(v[a], grid_size[a]), bbox_size[a]), bbox_min[a])]

\* MCSurfaceExtractor.run(grid_logit, *, mc_level, bounds, octree_resolution)
MCRun(grid_logit, kwargs) ==
    IF kwargs.mc_level.t = "missing" \/ kwargs.bounds.t = "missing"
    THEN Raise("TypeError")
    ELSE LET mc == marching_cubes(grid_logit, kwargs.mc_level.v[1])
         IN  IF ~mc.ok THEN mc
             ELSE LET st == _compute_box_stat(kwargs.bounds,
                                              kwargs.octree_resolution)
                  IN  IF ~st.ok THEN Raise(st.exc)
                      ELSE Return([k \in 1 .. Len(mc.vertices) |->
                                      MapVertex(mc.vertices[k], st.grid_size,
                                                st.bbox_size, st.bbox_min)],
                                  mc.faces, "float64", TRUE)

\* ------------------------------------------------------- the diso backend
\* sdf = (-grid_logit / octree_resolution).to(float32).contiguous()
SDF(grid_logit, octree_resolution) ==
    [n |-> grid_logit.n, kind |-> grid_logit.kind, h |-> grid_logit.h,
     sign |-> -1, scale |-> octree_resolution, dtype |-> "float32"]

\* self.dmc(sdf, deform=None, return_quads=False, normalize=True): vertices
\* in the unit box and triangles; nothing when the field has no crossing.
DiffDMC(sdf) ==
    LET D == 2 * (sdf.n - 1)
        h == sdf.h
    IN  IF sdf.kind # "sphere" THEN [verts |-> <<>>, faces |-> <<>>]
        ELSE [verts |-> << <<Rat(h, D), Rat(0, D), Rat(D, D)>>,
                           <<Rat(0, D), Rat(h, D), Rat(h, D)>>,
                           <<Rat(D, D), Rat(D, D), Rat(0, D)>>,
                           <<Rat(h, D), Rat(D, D), Rat(h, D)>> >>,
              faces |-> IF h % 2 = 0 THEN << <<0, 1, 2>>, <<1, 3, 2>> >>
                        ELSE << <<0, 1, 3>>, <<0, 3, 2>> >>]

RLeq(p, q) == p[1] * q[2] <= q[1] * p[2]
RSum(p, q) == <<p[1] * q[2] + q[1] * p[2], p[2] * q[2]>>
RSub(p, q) == <<p[1] * q[2] - q[1] * p[2], p[2] * q[2]>>
RHalf(p) == <<p[1], 2 * p[2]>>

\* center_vertices(vertices): vertices - 0.5 * (min + max) per axis
center_vertices(vertices) ==
    LET col(a) == {vertices[k][a] : k \in 1 .. Len(vertices)}
        vert_min(a) == CHOOSE p \in col(a) : \A q \in col(a) : RLeq(p, q)
        vert_max(a) == CHOOSE p \in col(a) : \A q \in col(a) : RLeq(q, p)
        vert_center(a) == RHalf(RSum(vert_min(a), vert_max(a)))
    IN  [k \in 1 .. Len(vertices) |->
            [a \in 1 .. 3 |-> RSub(vertices[k][a], vert_center(a))]]

\* Variant: the rows are left as the backend gave them.
KeepFace(f) == f

\* faces[:, ::-1]: every row reversed
ReverseFace(f) == <<f[3], f[2], f[1]>>

\* DMCSurfaceExtractor.run, the primary path (lines 121-128); the minimum of
\* an empty tensor raises in center_vertices.
DMCPrimary(grid_logit, octree_resolution) ==
    LET out == DiffDMC(SDF(grid_logit, octree_resolution))
    IN  IF Len(out.verts) = 0 THEN Raise("IndexError")
        ELSE Return(center_vertices(out.verts),
                    [k \in 1 .. Len(out.faces) |-> ReverseFace(out.faces[k])],
                    "float32", FALSE)

\* --------------------------------------------- DMCSurfaceExtractor.run
\* Variant: the guard forgets the fallback flag.
NeedProbeNoFlag(self) == ~self.dmc

\* Variant: the guard forgets the stored handle.
NeedProbeNoHandle(self) == ~self._use_fallback

\* `if not hasattr(self, 'dmc') and not self._use_fallback`
NeedProbe(self) == ~self.dmc /\ ~self._use_fallback

\* Variant: AttributeError is left out of the except clause.
RecoverableNoAttr(exc) ==
    \/ IsInstance(exc, "RuntimeError")
    \/ IsInstance(exc, "ValueError")
    \/ IsInstance(exc, "TypeError")

\* `except (RuntimeError, ValueError, TypeError, AttributeError)`
Recoverable(exc) ==
    \/ IsInstance(exc, "RuntimeError")
    \/ IsInstance(exc, "ValueError")
    \/ IsInstance(exc, "TypeError")
    \/ IsInstance(exc, "AttributeError")

\* Variant: the flag is set and the extractor is never constructed.
SetFlagOnly(self) == [self EXCEPT !._use_fallback = TRUE]

\* self._use_fallback = True; self._fallback_extractor = MCSurfaceExtractor()
SetFallback(self) ==
    [self EXCEPT !._use_fallback = TRUE, !._fallback_extractor = TRUE]

\* The try statement of lines 92-115 when the import and construction end
\* as diso says: the instance afterwards and the exception that escapes.
Probe(self, diso) ==
    IF diso = "ok" THEN [self |-> [self EXCEPT !.dmc = TRUE], exc |-> ""]
    ELSE IF IsInstance(diso, "ImportError")
    THEN [self |-> SetFallback(self), exc |-> ""]
    ELSE IF Recoverable(diso) THEN [self |-> SetFallback(self), exc |-> ""]
    ELSE [self |-> self, exc |-> diso]

\* Variant: the winding correction of the primary path is applied to the
\* fallback's faces as well.
FallbackRunReversed(self, grid_logit, octree_resolution, rest) ==
    LET r == MCRun(grid_logit,
                   [mc_level |-> rest.mc_level, bounds |-> rest.bounds,
                    octree_resolution |-> octree_resolution])
    IN  IF ~self._fallback_extractor THEN Raise("AttributeError")
        ELSE [r EXCEPT !.faces = [k \in 1 .. Len(r.faces) |->
                                     ReverseFace(r.faces[k])]]

\* self._fallback_extractor.run(grid_logit, octree_resolution=..., **kwargs)
FallbackRun(self, grid_logit, octree_resolution, rest) ==
    IF ~self._fallback_extractor THEN Raise("AttributeError")
    ELSE MCRun(grid_logit, [mc_level |-> rest.mc_level, bounds |-> rest.bounds,
                            octree_resolution |-> octree_resolution])

\* One call of DMCSurfaceExtractor.run: the instance afterwards, what the
\* call returned or raised, and which way it went.
DMCRun(self, grid_logit, kwargs, diso) ==
    LET octree_resolution == kwargs.octree_resolution
        rest == [mc_level |-> kwargs.mc_level, bounds |-> kwargs.bounds]
        probed == NeedProbe(self)
        p == IF probed THEN Probe(self, diso) ELSE [self |-> self, exc |-> ""]
        s == p.self
        base == [self |-> s, probed |-> probed, wrote |-> probed /\ p.exc = "",
                 path |-> "raised", raw |-> <<>>, ret |-> Raise(p.exc)]
    IN  IF p.exc # "" THEN base
        ELSE IF s._use_fallback
        THEN [base EXCEPT !.path = "fallback",
                          !.ret = FallbackRun(s, grid_logit, octree_resolution,
                                              rest)]
        ELSE IF ~s.dmc
        THEN [base EXCEPT !.path = "backend", !.ret = Raise("AttributeError")]
        ELSE [base EXCEPT !.path = "backend",
                          !.raw = DiffDMC(SDF(grid_logit,
                                              octree_resolution)).faces,
                          !.ret = DMCPrimary(grid_logit, octree_resolution)]

Self ==
    [dmc |-> dmc, _use_fallback |-> _use_fallback,
     _fallback_extractor |-> _fallback_extractor]

Bump(c, cap) == IF c < cap THEN c + 1 ELSE c

\* The effect of one DMCSurfaceExtractor.run call on the instance.
ApplyDMC(run, grid_logit, kwargs, diso) ==
    /\ dmc' = run.self.dmc
    /\ _use_fallback' = run.self._use_fallback
    /\ _fallback_extractor' = run.self._fallback_extractor
    /\ probes' = IF run.probed THEN Bump(probes, 2) ELSE probes
    /\ writes' = IF run.wrote THEN Bump(writes, 2) ELSE writes
    /\ last' = [NoCall EXCEPT !.op = "dmc", !.grid_logit = grid_logit,
                              !.kwargs = kwargs, !.diso = diso,
                              !.probed = run.probed, !.path = run.path,
                              !.raw = run.raw, !.ret = run.ret]

\* ------------------------------------------- SurfaceExtractor.__call__
None == [none |-> TRUE, mesh_v |-> <<>>, mesh_f |-> <<>>, dtype |-> "",
         contiguous |-> FALSE]

\* Latent2MeshOutput(vertices.astype(np.float32), np.ascontiguousarray(faces))
Latent2MeshOutput(ret) ==
    [none |-> FALSE, mesh_v |-> ret.vertices, mesh_f |-> ret.faces,
     dtype |-> "float32", contiguous |-> TRUE]

\* Variant: `except ValueError`
CaughtValueError(exc) == IsInstance(exc, "ValueError")

\* `except Exception`
Caught(exc) == IsInstance(exc, "Exception")

\* Variant: a failed item appends nothing.
AppendOutputSkip(out, ret) ==
    IF ret.ok THEN Append(out, Latent2MeshOutput(ret)) ELSE out

\* the body of the for loop: append the mesh, or None when run raised
AppendOutput(out, ret) ==
    IF ret.ok THEN Append(out, Latent2MeshOutput(ret)) ELSE Append(out, None)

\* The inputs of Spec, which follows one DMCSurfaceExtractor instance through
\* calls and batches; SpecRun ranges over all of Fields and Kwargs.
FewFields(n) == {f \in Fields(n) : f.h <= 1}
FewKwargs(r) ==
    {[mc_level |-> FloatArg(0), bounds |-> b, octree_resolution |-> r] :
        b \in {FloatArg(1), NoArg, SeqArg(<<-1, 0, -1, 1, 1, 1>>)}}
BatchFields(n) == {f \in FewFields(n) : f.kind = "flat" \/ f.h = 1}
BatchKwargs(r) ==
    {[mc_level |-> FloatArg(0), bounds |-> FloatArg(1),
      octree_resolution |-> r]}

\* ----------------------------------------------------- the state machine
NoArgs == [grid_logit |-> NullField, kwargs |-> NullKw]

InitInstance ==
    /\ dmc = FALSE
    /\ _use_fallback = FALSE
    /\ _fallback_extractor = FALSE
    /\ probes = 0
    /\ writes = 0
    /\ last = NoCall
    /\ pc = "idle"
    /\ extractor = "mc"
    /\ grid_logits = <<>>
    /\ kw = NullKw
    /\ i = 0
    /\ outputs = <<>>
    /\ rets = <<>>

Init == InitInstance /\ args = NoArgs

Idle == pc \in {"idle", "done", "raised"}

ResetCall ==
    /\ pc' = "idle"
    /\ extractor' = "mc"
    /\ grid_logits' = <<>>
    /\ kw' = NullKw
    /\ i' = 0
    /\ outputs' = <<>>
    /\ rets' = <<>>

\* a direct call of MCSurfaceExtractor().run
RunMC ==
    /\ Idle
    /\ \E r \in Resolutions :
         \E g \in FewFields(r + 1), k \in FewKwargs(r) :
            last' = [NoCall EXCEPT !.op = "mc", !.grid_logit = g, !.kwargs = k,
                                   !.ret = MCRun(g, k)]
    /\ ResetCall
    /\ UNCHANGED <<dmc, _use_fallback, _fallback_extractor, probes, writes,
                   args>>

\* a direct call of run on the DMCSurfaceExtractor instance
RunDMC ==
    /\ Idle
    /\ \E r \in Resolutions, diso \in ProbeOutcomes :
         \E g \in FewFields(r + 1), k \in FewKwargs(r) :
            ApplyDMC(DMCRun(Self, g, k, diso), g, k, diso)
    /\ ResetCall
    /\ UNCHANGED args

\* extractor(grid_logits, **kwargs): entry, before the first iteration
Call ==
    /\ Idle
    /\ \E e \in {"mc", "dmc"}, r \in Resolutions, n \in 0 .. MaxBatch :
         \E batch \in [1 .. n -> BatchFields(r + 1)], k \in BatchKwargs(r) :
            /\ extractor' = e
            /\ grid_logits' = batch
            /\ kw' = k
    /\ pc' = "loop"
    /\ i' = 0
    /\ outputs' = <<>>
    /\ rets' = <<>>
    /\ last' = NoCall
    /\ UNCHANGED <<dmc, _use_fallback, _fallback_extractor, probes, writes,
                   args>>

\* one iteration of the loop of __call__
Iterate(ret) ==
    /\ rets' = Append(rets, ret)
    /\ i' = i + 1
    /\ IF ~ret.ok /\ ~Caught(ret.exc)
       THEN pc' = "raised" /\ outputs' = outputs
       ELSE pc' = "loop" /\ outputs' = AppendOutput(outputs, ret)
    /\ UNCHANGED <<extractor, grid_logits, kw, args>>

CallItemMC ==
    /\ pc = "loop" /\ i < Len(grid_logits) /\ extractor = "mc"
    /\ Iterate(MCRun(grid_logits[i + 1], kw))
    /\ UNCHANGED <<dmc, _use_fallback, _fallback_extractor, probes, writes,
                   last>>

CallItemDMC ==
    /\ pc = "loop" /\ i < Len(grid_logits) /\ extractor = "dmc"
    /\ \E diso \in ProbeOutcomes :
         LET g == grid_logits[i + 1]
             run == DMCRun(Self, g, kw, diso)
         IN  /\ Iterate(run.ret)
             /\ ApplyDMC(run, g, kw, diso)

\* `return outputs`
CallReturn ==
    /\ pc = "loop" /\ i = Len(grid_logits)
    /\ pc' = "done"
    /\ UNCHANGED <<dmc, _use_fallback, _fallback_extractor, probes, writes,
                   args, last, extractor, grid_logits, kw, i, outputs, rets>>

Next ==
    \/ RunMC
    \/ RunDMC
    \/ Call
    \/ CallItemMC
    \/ CallItemDMC
    \/ CallReturn

Spec == Init /\ [][Next]_vars

\* ------------------------------------- stand-alone calls on all arguments
InitRun ==
    /\ InitInstance
    /\ \E r \in Resolutions :
         \E g \in Fields(r + 1), k \in Kwargs(r) :
            args = [grid_logit |-> g, kwargs |-> k]

\* self._compute_box_stat(bounds, octree_resolution)
ComputeBoxStat ==
    /\ args.kwargs.bounds # NoArg
    /\ last' = [NoCall EXCEPT !.op = "box", !.kwargs = args.kwargs,
                              !.stat = _compute_box_stat(
                                          args.kwargs.bounds,
                                          args.kwargs.octree_resolution)]
    /\ UNCHANGED <<dmc, _use_fallback, _fallback_extractor, probes, writes,
                   args, pc, extractor, grid_logits, kw, i, outputs, rets>>

\* MCSurfaceExtractor().run(grid_logit, **kwargs)
RunMCArgs ==
    /\ last' = [NoCall EXCEPT !.op = "mc", !.grid_logit = args.grid_logit,
                              !.kwargs = args.kwargs,
                              !.ret = MCRun(args.grid_logit, args.kwargs)]
    /\ UNCHANGED <<dmc, _use_fallback, _fallback_extractor, probes, writes,
                   args, pc, extractor, grid_logits, kw, i, outputs, rets>>

NextRun == ComputeBoxStat \/ RunMCArgs

SpecRun == InitRun /\ [][NextRun]_vars

\* ======================================================== the claims
Unprobed == ~dmc /\ ~_use_fallback /\ ~_fallback_extractor
UsingBackend == dmc /\ ~_use_fallback /\ ~_fallback_extractor
UsingFallback == _use_fallback /\ _fallback_extractor /\ ~dmc

\* a run call of the DMC instance was made in this step and is in last'
DMCCalled == last' # last /\ last'.op = "dmc"

\* what __call__ is to put in the list for a run that ended as ret
ExpectedEntry(ret) ==
    IF ret.ok
    THEN [none |-> FALSE, mesh_v |-> ret.vertices, mesh_f |-> ret.faces,
          dtype |-> "float32", contiguous |-> TRUE]
    ELSE [none |-> TRUE, mesh_v |-> <<>>, mesh_f |-> <<>>, dtype |-> "",
          contiguous |-> FALSE]

\* the ways run can end on one item of the batch
RunsOf(e, g, k) ==
    IF e = "mc" THEN {MCRun(g, k)}
    ELSE {MCRun(g, k), DMCPrimary(g, k.octree_resolution)}
         \cup {Raise(x) : x \in ProbeOutcomes \ {"ok"}}

\* C1: a batch call returns exactly N entries, and entry j is the result
\* (mesh or None) of extracting item j: items are processed one at a time in
\* input order, nothing is dropped, duplicated or reordered.
C1_BatchResults ==
    pc # "idle" =>
        /\ pc \in {"loop", "done"}
        /\ i <= Len(grid_logits)
        /\ Len(outputs) = i
        /\ Len(rets) = i
        /\ pc = "done" => Len(outputs) = Len(grid_logits)
        /\ \A j \in 1 .. Len(outputs) :
              /\ outputs[j] = ExpectedEntry(rets[j])
              /\ rets[j] \in RunsOf(extractor, grid_logits[j], kw)

C1_Witness ==
    /\ pc = "done"
    /\ extractor = "dmc"
    /\ Len(outputs) = Len(grid_logits)
    /\ \E j, k \in 1 .. Len(outputs) : outputs[j].none /\ ~outputs[k].none

\* the result of item j taken alone, on the path the instance has settled on
Isolated(j) ==
    IF extractor = "mc" \/ _use_fallback THEN MCRun(grid_logits[j], kw)
    ELSE DMCPrimary(grid_logits[j], kw.octree_resolution)

\* C2: batch isolation: when the extraction of item k raises, None is put at
\* position k only and the loop goes on; the call never aborts, and every
\* other item whose extraction succeeds yields its own mesh, whatever item k
\* did.
C2_BatchIsolation ==
    \A k \in 1 .. Len(rets) :
        ~rets[k].ok =>
            /\ pc \in {"loop", "done"}
            /\ Len(outputs) >= k
            /\ outputs[k].none
            /\ pc = "done" => Len(outputs) = Len(grid_logits)
            /\ \A j \in 1 .. Len(outputs) :
                  (j # k /\ rets[j].ok) =>
                      /\ ~outputs[j].none
                      /\ outputs[j] = ExpectedEntry(Isolated(j))

C2_Witness ==
    /\ pc = "done"
    /\ \E k, j \in 1 .. Len(outputs) :
          k < j /\ ~rets[k].ok /\ outputs[k].none /\ rets[j].ok
          /\ ~outputs[j].none

\* C3: once the fallback flag is set, it stays set, and every later run call
\* on the instance delegates to the Classic-MC extractor without importing or
\* constructing the backend again, whatever the backend would now answer.
C3_FallbackPermanent ==
    [][_use_fallback =>
          /\ _use_fallback' /\ _fallback_extractor' /\ ~dmc'
          /\ probes' = probes
          /\ DMCCalled =>
                /\ ~last'.probed
                /\ last'.path = "fallback"
                /\ last'.ret = MCRun(last'.grid_logit, last'.kwargs)]_vars

C3_Witness ==
    /\ _use_fallback
    /\ last.op = "dmc" /\ ~last.probed /\ last.diso = "ok"
    /\ last.path = "fallback" /\ last.ret.ok

NamedRecoverable(exc) ==
    \E c \in {"ImportError", "RuntimeError", "ValueError", "TypeError",
              "AttributeError"} : IsInstance(exc, c)

\* C5: a probe that raises ImportError, RuntimeError, ValueError, TypeError
\* or AttributeError sets the fallback flag and the same call is answered by
\* Classic-MC; any other exception leaves run uncaught and leaves no flag, no
\* fallback extractor and no handle.
C5_ProbeClassification ==
    (last.op = "dmc" /\ last.probed /\ last.diso # "ok") =>
        IF NamedRecoverable(last.diso)
        THEN /\ _use_fallback /\ _fallback_extractor /\ ~dmc
             /\ last.path = "fallback"
             /\ last.ret = MCRun(last.grid_logit, last.kwargs)
        ELSE /\ last.path = "raised"
             /\ ~last.ret.ok /\ last.ret.exc = last.diso
             /\ ~_use_fallback /\ ~_fallback_extractor /\ ~dmc

C5_Witness ==
    /\ last.op = "dmc" /\ last.probed /\ last.diso = "KeyError"
    /\ last.path = "raised" /\ last.ret.exc = "KeyError"
    /\ probes = 2 /\ Unprobed

\* the box the caller's bounds denote
BoxMin(bounds, a) == IF bounds.t = "seq" THEN bounds.v[a] ELSE -bounds.v[1]
BoxMax(bounds, a) == IF bounds.t = "seq" THEN bounds.v[a + 3] ELSE bounds.v[1]

\* world = g / R * size + bbox_min for vertex k, axis a of last's mesh, with
\* the two end indices spelled out; the half-open range is asked of every
\* axis (always), or of the axes of positive size only.
MapsAsClaimed(k, a, always) ==
    LET r == last.kwargs.octree_resolution
        R == r + 1
        lo == BoxMin(last.kwargs.bounds, a)
        hi == BoxMax(last.kwargs.bounds, a)
        size == hi - lo
        g == marching_cubes(last.grid_logit,
                            last.kwargs.mc_level.v[1]).vertices[k][a]
        w == last.ret.vertices[k][a]
    IN  /\ w[2] > 0
        /\ w[1] * g[2] * R = w[2] * (g[1] * size + lo * g[2] * R)
        /\ g[1] = 0 => w[1] = lo * w[2]
        /\ g[1] = (R - 1) * g[2] =>
              /\ w[1] * R = w[2] * (lo * R + size * (R - 1))
              /\ size > 0 => w[1] < hi * w[2]
        /\ (always \/ size > 0) => (lo * w[2] <= w[1] /\ w[1] < hi * w[2])

\* C6 as stated: Classic-MC maps grid index g to g / R * bbox_size + bbox_min
\* with R = octree_resolution + 1, index 0 to bbox_min, index R-1 to
\* bbox_min + bbox_size * (R-1)/R, and every coordinate into
\* [bbox_min, bbox_max).
C6_MappingInBoxAlways ==
    (last.op = "mc" /\ last.ret.ok) =>
        /\ Len(last.ret.vertices) =
              Len(marching_cubes(last.grid_logit,
                                 last.kwargs.mc_level.v[1]).vertices)
        /\ \A k \in 1 .. Len(last.ret.vertices) :
              \A a \in 1 .. 3 : MapsAsClaimed(k, a, TRUE)

\* C6 as amended: the same mapping, with the coordinate in
\* [bbox_min, bbox_max) on every axis whose bbox_size is positive.
C6_MappingInBoxWhenPositive ==
    (last.op = "mc" /\ last.ret.ok) =>
        /\ Len(last.ret.vertices) =
              Len(marching_cubes(last.grid_logit,
                                 last.kwargs.mc_level.v[1]).vertices)
        /\ \A k \in 1 .. Len(last.ret.vertices) :
              \A a \in 1 .. 3 : MapsAsClaimed(k, a, FALSE)

C6_Witness ==
    /\ last.op = "mc" /\ last.ret.ok
    /\ last.kwargs.bounds = SeqArg(<<-1, 0, -1, 1, 1, 1>>)
    /\ last.grid_logit.h = 0
    /\ last.kwargs.octree_resolution = 2
    /\ last.ret.vertices[2][3] = <<2, 6>>

\* C7: on the primary path every face (a, b, c) of the backend comes back as
\* (c, b, a) at the same position: same number and order of faces, same
\* vertex indices per face, and reversing again gives the backend's faces.
C7_WindingReversed ==
    (last.op = "dmc" /\ last.path = "backend" /\ last.ret.ok) =>
        /\ Len(last.ret.faces) = Len(last.raw)
        /\ \A k \in 1 .. Len(last.raw) :
              LET raw == last.raw[k]
                  f == last.ret.faces[k]
              IN  /\ f = <<raw[3], raw[2], raw[1]>>
                  /\ {f[1], f[2], f[3]} = {raw[1], raw[2], raw[3]}
                  /\ ReverseFace(f) = raw

C7_Witness ==
    /\ last.op = "dmc" /\ last.path = "backend" /\ last.ret.ok
    /\ ~last.probed
    /\ Len(last.raw) = 2
    /\ last.raw[1] = <<0, 1, 3>>
    /\ last.ret.faces[1] = <<3, 1, 0>>

\* C8: a scalar bounds b of any numeric type resolves like the 6-tuple
\* [-b,-b,-b,b,b,b]: grid_size (r+1, r+1, r+1), bbox_min (-b,-b,-b),
\* bbox_size (2b, 2b, 2b); for a 6-tuple bbox_min is its first three entries
\* and bbox_size the last three minus the first three.
C8_ScalarBoundsResolve ==
    last.op = "box" =>
        LET b == last.kwargs.bounds
            r == last.kwargs.octree_resolution
            x == b.v[1]
        IN  /\ last.stat.ok
            /\ last.stat.grid_size = <<r + 1, r + 1, r + 1>>
            /\ b.t \in {"float", "int"} =>
                  /\ last.stat =
                        _compute_box_stat(SeqArg(<<-x, -x, -x, x, x, x>>), r)
                  /\ last.stat.bbox_min = <<-x, -x, -x>>
                  /\ last.stat.bbox_size = <<2 * x, 2 * x, 2 * x>>
            /\ b.t = "seq" =>
                  /\ last.stat.bbox_min = <<b.v[1], b.v[2], b.v[3]>>
                  /\ last.stat.bbox_size =
                        <<b.v[4] - b.v[1], b.v[5] - b.v[2], b.v[6] - b.v[3]>>

\* C9: in fallback, run forwards the field, octree_resolution and the other
\* parameters unchanged and returns what MCSurfaceExtractor.run returns on
\* them (faces as marching cubes gave them, no winding reversal); a call
\* without bounds fails like Classic-MC, on every call.
C9_FallbackEquivalence ==
    (last.op = "dmc" /\ last.path = "fallback") =>
        /\ last.ret = MCRun(last.grid_logit, last.kwargs)
        /\ last.kwargs.bounds = NoArg =>
              (~last.ret.ok /\ last.ret.exc = "TypeError")
        /\ last.ret.ok =>
              /\ last.ret.faces =
                    marching_cubes(last.grid_logit,
                                   last.kwargs.mc_level.v[1]).faces
              /\ last.raw = <<>>

C9_Witness ==
    /\ last.op = "dmc" /\ last.path = "fallback" /\ ~last.probed
    /\ last.ret.ok
    /\ last.kwargs.bounds = SeqArg(<<-1, 0, -1, 1, 1, 1>>)

\* C10: the instance is always Unprobed, UsingBackend or UsingFallback; the
\* flag is set exactly when the fallback extractor is stored; the only moves
\* are out of Unprobed, so the flag never returns to false and a stored handle
\* is never replaced.
C10_ProbeState ==
    /\ [](/\ Unprobed \/ UsingBackend \/ UsingFallback
          /\ _use_fallback <=> _fallback_extractor
          /\ writes <= 1)
    /\ [][/\ UsingBackend => (UsingBackend' /\ writes' = writes)
          /\ UsingFallback => (UsingFallback' /\ writes' = writes)]_vars

C10_Witness ==
    /\ UsingBackend
    /\ last.op = "dmc" /\ ~last.probed /\ last.diso = "ImportError"
    /\ last.path = "backend"
====
